---- MODULE Spec2Model ----
(***************************************************************************)
(* Model of neurokit2/microstates/microstates_segment.py.                  *)
(*                                                                         *)
(* Two specifications explore the two paths of microstates_segment():      *)
(*                                                                         *)
(*   Spec     the multi-run path (method "kmod", lines 186-241) followed   *)
(*            by the shared tail (lines 258-276).  The values a run        *)
(*            produces (patterns, segmentation, polarity, per-pattern GEV, *)
(*            diagnostics) are carried as values tagged with the run that  *)
(*            produced them; the aggregate GEV and the residual, which the *)
(*            selection compares, are numbers drawn from bounded ranges.   *)
(*                                                                         *)
(*   SpecSeg  the single-run path (lines 243-256) followed by the shared   *)
(*            tail, on concrete integer signals and unit-norm patterns,    *)
(*            with _microstates_segment_runsegmentation (lines 282-292)    *)
(*            computed as numpy computes it.                               *)
(*                                                                         *)
(* Python indices are kept 0-based.                                        *)
(***************************************************************************)
EXTENDS Integers, Sequences, FiniteSets

VARIABLES
    method,         \* "kmod" (multi-run path) or "kmeans" (single-run path)
    criterion,      \* the criterion argument
    n_runs,         \* the n_runs argument
    data,           \* the cleaned signal, channels x samples
    indices,        \* the training samples selected by microstates_clean
    run,            \* the loop variable of `for run in range(n_runs)`
    gev,            \* local gev
    cv,             \* local cv
    microstates,    \* local microstates
    segmentation,   \* local segmentation
    polarity,       \* local polarity
    gev_all,        \* local gev_all (unbound until first assigned)
    info,           \* local info (algorithm diagnostics)
    fits,           \* history: the candidate of every completed clustering run
    cluster_calls,  \* history: number of invocations of cluster()
    pc,             \* position of the call
    error,          \* the exception that ended the call, if any
    result          \* the returned dict, if any

vars == <<method, criterion, n_runs, data, indices, run, gev, cv, microstates, segmentation,
          polarity, gev_all, info, fits, cluster_calls, pc, error, result>>

(***************************************************************************)
(* Bounds                                                                  *)
(***************************************************************************)
MaxRuns == 3

MaxGev == 2

MaxResidual == 1

NSamples == 2

n_microstates == 2

Channels == {0, 1}

Amplitudes == {-1, 0, 1}

Samples == 0 .. (NSamples - 1)

States == 0 .. (n_microstates - 1)

Criteria == {"gev", "cv", "other"}

(***************************************************************************)
(* Python values                                                           *)
(***************************************************************************)
\* None, and a name that has not been bound yet
None == [kind |-> "None", run |-> -1, canonical |-> FALSE]

Unbound == [kind |-> "unbound", run |-> -1, canonical |-> FALSE]

\* a value produced by clustering run r (Spec): which array it is, and its run
Sym(kind, r) == [kind |-> kind, run |-> r, canonical |-> FALSE]

\* floats: a finite number or np.inf
Real(n) == [inf |-> FALSE, v |-> n]

np_inf == [inf |-> TRUE, v |-> 0]

Residuals == {Real(n) : n \in 0 .. MaxResidual} \cup {np_inf}

\* a < b on floats
LessThan(a, b) == (~a.inf) /\ (b.inf \/ a.v < b.v)

NoResult == [returned |-> FALSE]

(***************************************************************************)
(* Arithmetic helpers                                                      *)
(***************************************************************************)
RECURSIVE SumOver(_, _)
SumOver(S, f) ==
    IF S = {} THEN 0
    ELSE LET x == CHOOSE y \in S : TRUE
         IN  f[x] + SumOver(S \ {x}, f)

np_abs(x) == IF x < 0 THEN -x ELSE x

np_sign_zero_positive(x) == IF x < 0 THEN -1 ELSE 1

\* np.sign: -1, 0 or +1
np_sign(x) == IF x > 0 THEN 1 ELSE IF x < 0 THEN -1 ELSE 0

\* rows of clusters_normalized: L2-normalised patterns over the channels
UnitRows == {r \in [Channels -> Amplitudes] : SumOver(Channels, [c \in Channels |-> r[c] * r[c]]) = 1}

PatternSets == [States -> UnitRows]

Signals == [Channels -> [Samples -> Amplitudes]]

\* training selections of microstates_clean: every sample (train="all") or a
\* proper subset of them (the GFP peaks)
TrainingSets == {Samples, {0}}

Permutations == {p \in [States -> States] : \A a, b \in States : p[a] = p[b] => a = b}

(***************************************************************************)
(* _microstates_segment_runsegmentation (lines 282-292)                    *)
(***************************************************************************)
SamplesOf(d) == DOMAIN d[CHOOSE c \in Channels : TRUE]

\* microstates.dot(data): activation[k][t] = sum_c microstates[k][c] * data[c][t]
dot(m, d) ==
    [k \in DOMAIN m |->
        [t \in SamplesOf(d) |-> SumOver(Channels, [c \in Channels |-> m[k][c] * d[c][t]])]]

np_argmax_last(col) ==
    CHOOSE k \in DOMAIN col :
        /\ \A j \in DOMAIN col : col[j] <= col[k]
        /\ \A j \in DOMAIN col : j > k => col[j] < col[k]

\* np.argmax: the first index holding the maximum
np_argmax(col) ==
    CHOOSE k \in DOMAIN col :
        /\ \A j \in DOMAIN col : col[j] <= col[k]
        /\ \A j \in DOMAIN col : j < k => col[j] < col[k]

\* np.argmax(np.abs(activation), axis=0)
argmax_abs_axis0(activation) ==
    [t \in DOMAIN activation[CHOOSE k \in DOMAIN activation : TRUE] |->
        np_argmax([k \in DOMAIN activation |-> np_abs(activation[k][t])])]

\* np.choose(segmentation, activation)
np_choose(seg, activation) == [t \in DOMAIN seg |-> activation[seg[t]][t]]

\* _cluster_quality_gev: per-pattern GEV sums, over the samples assigned to the
\* pattern, the energy the pattern explains; every entry shares the denominator
\* (the total signal energy), so the numerators are kept.
cluster_quality_gev(d, m, seg) ==
    LET activation == dot(m, d)
        per == [k \in DOMAIN m |->
                   SumOver({t \in DOMAIN seg : seg[t] = k},
                           [t \in DOMAIN seg |-> activation[k][t] * activation[k][t]])]
    IN  [gev |-> SumOver(DOMAIN m, per), gev_all |-> per]

microstates_segment_runsegmentation(d, m) ==
    LET activation == dot(m, d)
        seg == argmax_abs_axis0(activation)
        chosen == np_choose(seg, activation)
        pol == [t \in DOMAIN seg |-> np_sign(chosen[t])]
        q == cluster_quality_gev(d, m, seg)
    IN  [segmentation |-> seg, polarity |-> pol, gev |-> q.gev, gev_all |-> q.gev_all]

\* microstates_classify: a pure reordering.  Row j of the reordered patterns is
\* row perm[j] of the input, and every label is renamed accordingly.
microstates_classify(seg, m, perm) ==
    [segmentation |-> [t \in DOMAIN seg |-> CHOOSE j \in DOMAIN perm : perm[j] = seg[t]],
     microstates  |-> [j \in DOMAIN perm |-> m[perm[j]]]]

(***************************************************************************)
(* Single-run path (lines 243-256) and the shared tail (lines 258-276)     *)
(***************************************************************************)
InitSeg ==
    /\ method = "kmeans"
    /\ criterion \in {"gev"}
    /\ n_runs = 1
    /\ data \in Signals
    /\ indices \in TrainingSets
    /\ run = 0
    /\ gev = 0
    /\ cv = np_inf
    /\ microstates = None
    /\ segmentation = None
    /\ polarity = None
    /\ gev_all = Unbound
    /\ info = None
    /\ fits = <<>>
    /\ cluster_calls = 0
    /\ pc = "cluster"
    /\ error = "none"
    /\ result = NoResult

\* lines 245-251: one clustering fit on the training samples
ClusterOnce ==
    /\ pc = "cluster"
    /\ \E m \in PatternSets :
          /\ microstates' = m
          /\ info' = Sym("info", 0)
    /\ cluster_calls' = cluster_calls + 1
    /\ pc' = "segment"
    /\ UNCHANGED <<method, criterion, n_runs, data, indices, run, gev, cv, segmentation,
                   polarity, gev_all, fits, error, result>>

\* lines 254-256: segmentation of the whole dataset
SegmentWhole ==
    /\ pc = "segment"
    /\ LET r == microstates_segment_runsegmentation(data, microstates)
       IN  /\ segmentation' = r.segmentation
           /\ polarity' = r.polarity
           /\ gev' = r.gev
           /\ gev_all' = r.gev_all
    /\ pc' = "reorder"
    /\ UNCHANGED <<method, criterion, n_runs, data, indices, run, cv, microstates, info,
                   fits, cluster_calls, error, result>>

\* lines 258-276: reorder, then assemble the output
ReorderOutputSingle ==
    /\ pc = "reorder"
    /\ method = "kmeans"
    /\ \E perm \in Permutations :
          LET c == microstates_classify(segmentation, microstates, perm)
          IN  /\ segmentation' = c.segmentation
              /\ microstates' = c.microstates
              /\ result' = [returned |-> TRUE,
                            Microstates |-> c.microstates,
                            Sequence |-> c.segmentation,
                            GEV |-> gev,
                            GEV_per_microstate |-> gev_all,
                            Polarity |-> polarity,
                            Info_algorithm |-> info]
    /\ pc' = "done"
    /\ UNCHANGED <<method, criterion, n_runs, data, indices, run, gev, cv, polarity,
                   gev_all, info, fits, cluster_calls, error>>

NextSeg == ClusterOnce \/ SegmentWhole \/ ReorderOutputSingle

SpecSeg == InitSeg /\ [][NextSeg]_vars

(***************************************************************************)
(* Multi-run path (lines 186-241) and the shared tail (lines 258-276)      *)
(***************************************************************************)
\* the signal is opaque to the selection loop
OpaqueSignal == <<>>

\* the fit of run r: current_info; its seed random_state[r] is distinct per run
Info(r) == Sym("info", r)

\* the reordered arrays returned by microstates_classify, symbolically
Classified(x) == [x EXCEPT !.canonical = TRUE]

IsBetterGevReversed(g, best) == g < best

IsBetterGevNonStrict(g, best) == g >= best

\* line 226: if g > gev
IsBetterGev(g, best) == g > best

\* line 238: if current_residual < cv
IsBetterCv(current_residual, best) == LessThan(current_residual, best)

Init ==
    /\ method = "kmod"
    /\ criterion \in Criteria
    /\ n_runs \in 1 .. MaxRuns
    /\ data = OpaqueSignal
    /\ indices = {}
    /\ run = 0
    /\ gev = 0
    /\ cv = np_inf
    /\ microstates = None
    /\ segmentation = None
    /\ polarity = None
    /\ gev_all = Unbound
    /\ info = None
    /\ fits = <<>>
    /\ cluster_calls = 0
    /\ pc = "loop"
    /\ error = "none"
    /\ result = NoResult

AfterIteration(r) == IF r + 1 < n_runs THEN "loop" ELSE "reorder"

ClusterFailureSkipped ==
    /\ pc = "loop"
    /\ run < n_runs
    /\ cluster_calls' = cluster_calls + 1
    /\ error' = "ClusterError"
    /\ run' = run + 1
    /\ pc' = AfterIteration(run)
    /\ UNCHANGED <<method, criterion, n_runs, data, indices, gev, cv, microstates,
                   segmentation, polarity, gev_all, info, fits, result>>

\* lines 207-215 when cluster() raises: nothing catches it
ClusterFailure ==
    /\ pc = "loop"
    /\ run < n_runs
    /\ cluster_calls' = cluster_calls + 1
    /\ error' = "ClusterError"
    /\ pc' = "raised"
    /\ UNCHANGED <<method, criterion, n_runs, data, indices, run, gev, cv, microstates,
                   segmentation, polarity, gev_all, info, fits, result>>

\* lines 204-241: one iteration of the loop whose clustering fit succeeds
Iteration ==
    /\ pc = "loop"
    /\ run < n_runs
    /\ \E g \in 0 .. MaxGev, current_residual \in Residuals :
          LET current_info == Info(run)
              current_microstates == Sym("microstates", run)
              s == Sym("segmentation", run)
              p == Sym("polarity", run)
              g_all == Sym("gev_all", run)
          IN  /\ cluster_calls' = cluster_calls + 1
              /\ fits' = Append(fits, [run |-> run, g |-> g, residual |-> current_residual])
              /\ IF criterion = "gev" THEN
                     /\ IF IsBetterGev(g, gev) THEN
                            /\ microstates' = current_microstates
                            /\ segmentation' = s
                            /\ polarity' = p
                            /\ gev' = g
                            /\ gev_all' = g_all
                            /\ info' = current_info
                        ELSE
                            UNCHANGED <<microstates, segmentation, polarity, gev, gev_all, info>>
                     /\ run' = run + 1
                     /\ pc' = AfterIteration(run)
                     /\ UNCHANGED <<cv, error>>
                 ELSE IF criterion = "cv" THEN
                     IF IsBetterCv(current_residual, cv) THEN
                         /\ microstates' = current_microstates
                         /\ segmentation' = s
                         /\ polarity' = p
                         /\ cv' = current_residual
                         /\ gev' = g
                         /\ gev_all' = g_all
                         \* line 241, info -= current_info: info holds None (or, had
                         \* it been bound, a dict), and neither supports the in-place
                         \* subtraction, so the statement raises TypeError
                         /\ error' = "TypeError"
                         /\ pc' = "raised"
                         /\ UNCHANGED <<info, run>>
                     ELSE
                         /\ run' = run + 1
                         /\ pc' = AfterIteration(run)
                         /\ UNCHANGED <<microstates, segmentation, polarity, gev, cv,
                                        gev_all, info, error>>
                 ELSE
                     /\ run' = run + 1
                     /\ pc' = AfterIteration(run)
                     /\ UNCHANGED <<microstates, segmentation, polarity, gev, cv,
                                    gev_all, info, error>>
    /\ UNCHANGED <<method, criterion, n_runs, data, indices, result>>

\* lines 258-276 after the loop: reorder, then assemble the output.  What
\* microstates_classify does with None is not fixed by this file: it raises, or it
\* returns and line 269 then reads gev_all, which no run has bound.
ReorderOutputMulti ==
    /\ pc = "reorder"
    /\ method = "kmod"
    /\ IF microstates = None \/ gev_all = Unbound THEN
           /\ \E e \in {"ClassifyError", "UnboundLocalError"} :
                 /\ (e = "UnboundLocalError") => gev_all = Unbound
                 /\ (e = "ClassifyError") => microstates = None
                 /\ error' = e
           /\ pc' = "raised"
           /\ UNCHANGED <<microstates, segmentation, result>>
       ELSE
           /\ segmentation' = Classified(segmentation)
           /\ microstates' = Classified(microstates)
           /\ result' = [returned |-> TRUE,
                         Microstates |-> Classified(microstates),
                         Sequence |-> Classified(segmentation),
                         GEV |-> gev,
                         GEV_per_microstate |-> gev_all,
                         Polarity |-> polarity,
                         Info_algorithm |-> info]
           /\ pc' = "done"
           /\ UNCHANGED error
    /\ UNCHANGED <<method, criterion, n_runs, data, indices, run, gev, cv, polarity,
                   gev_all, info, fits, cluster_calls>>

Next == Iteration \/ ClusterFailure \/ ReorderOutputMulti

Spec == Init /\ [][Next]_vars

(***************************************************************************)
(* Properties of the multi-run path (checked under Spec)                   *)
(***************************************************************************)
Runs == 1 .. Len(fits)

CallEnded == pc \in {"done", "raised"}

\* the earliest run whose aggregate GEV is the highest of the runs so far
FirstMaxGevRun ==
    LET i == CHOOSE a \in Runs :
                 /\ \A b \in Runs : fits[b].g <= fits[a].g
                 /\ \A b \in Runs : b < a => fits[b].g < fits[a].g
    IN  fits[i].run

\* the earliest run whose residual is the lowest of the runs so far
FirstMinResidualRun ==
    LET i == CHOOSE a \in Runs :
                 /\ \A b \in Runs : ~LessThan(fits[b].residual, fits[a].residual)
                 /\ \A b \in Runs : b < a => LessThan(fits[a].residual, fits[b].residual)
    IN  fits[i].run

\* every retained local is the value run r produced
RetainedFrom(r) ==
    /\ microstates.kind = "microstates" /\ microstates.run = r
    /\ segmentation.kind = "segmentation" /\ segmentation.run = r
    /\ polarity = Sym("polarity", r)
    /\ gev_all = Sym("gev_all", r)
    /\ info = Info(r)
    /\ gev = fits[r + 1].g

NothingRetained ==
    /\ microstates = None
    /\ segmentation = None
    /\ polarity = None
    /\ gev_all = Unbound
    /\ info = None

\* the returned dict holds what run r produced (patterns and labels reordered)
ResultFrom(r) ==
    /\ result.returned
    /\ result.Microstates = Classified(Sym("microstates", r))
    /\ result.Sequence = Classified(Sym("segmentation", r))
    /\ result.Polarity = Sym("polarity", r)
    /\ result.GEV = fits[r + 1].g
    /\ result.GEV_per_microstate = Sym("gev_all", r)
    /\ result.Info_algorithm = Info(r)

\* C1: under criterion "cv", once some run has a finite residual, the retained
\* best is the first run attaining the lowest residual so far, and a call whose
\* clustering never raised returns the result of that run.
C1_CvRetainsFirstMinimumResidual ==
    (criterion = "cv" /\ error # "ClusterError" /\ \E i \in Runs : ~fits[i].residual.inf) =>
        /\ RetainedFrom(FirstMinResidualRun)
        /\ cv = fits[FirstMinResidualRun + 1].residual
        /\ CallEnded => ResultFrom(FirstMinResidualRun)

\* C2: under criterion "gev" with n_runs = 1, the only run is retained whatever
\* its aggregate GEV, and the call returns that run's engine outputs.
C2_SingleRunIsBaseline ==
    (criterion = "gev" /\ n_runs = 1 /\ Len(fits) = 1) =>
        /\ RetainedFrom(0)
        /\ CallEnded => ResultFrom(0)

\* C3: under criterion "gev", after every iteration the retained GEV is at least
\* the aggregate GEV of every candidate evaluated so far, and so is the GEV of a
\* returned result.
C3_BestGevDominates ==
    criterion = "gev" =>
        /\ \A i \in Runs : gev >= fits[i].g
        /\ result.returned => \A i \in Runs : result.GEV >= fits[i].g

C3_Witness ==
    /\ criterion = "gev"
    /\ result.returned
    /\ Len(fits) = 3
    /\ fits[1].g < fits[2].g
    /\ fits[3].g < fits[2].g
    /\ result.GEV = fits[2].g

C6_InvalidCriterionNeverClusters ==
    criterion \notin {"gev", "cv"} => cluster_calls = 0

\* C8: when cluster() raises on run i the call ends with that error: nothing is
\* returned, run i is the last run attempted, and no further step is taken.
C8_ClusterErrorPropagates ==
    error = "ClusterError" =>
        /\ pc = "raised"
        /\ ~result.returned
        /\ Len(fits) = run
        /\ cluster_calls = run + 1
        /\ ~ENABLED Next

C8_Witness ==
    /\ error = "ClusterError"
    /\ pc = "raised"
    /\ run >= 1
    /\ run + 1 < n_runs
    /\ microstates # None

\* C10: under either criterion the retained best is either wholly unset or
\* wholly the output of one run, and so is a returned result.
C10_BestIsOneRun ==
    /\ NothingRetained \/ \E i \in Runs : RetainedFrom(fits[i].run)
    /\ result.returned => \E i \in Runs : ResultFrom(fits[i].run)

(***************************************************************************)
(* Properties of the Assignment Engine and of the assembled result         *)
(* (checked under SpecSeg)                                                 *)
(***************************************************************************)
\* the engine has run and its outputs have not been reordered yet
Segmented == pc = "reorder"

\* activation of sample t at the pattern it is assigned to
AssignedActivation(t) == dot(microstates, data)[segmentation[t]][t]

\* C5 as stated: every polarity is +1 or -1, +1 exactly when the activation at
\* the assigned pattern is non-negative (zero included).
C5_PolarityIsPlusOrMinusOne ==
    Segmented =>
        \A t \in Samples :
            /\ polarity[t] \in {1, -1}
            /\ polarity[t] = 1 <=> AssignedActivation(t) >= 0

\* C5 as amended: the polarity is the sign of the activation at the assigned
\* pattern: +1 when positive, -1 when negative, 0 when exactly zero.
C5_PolarityIsSign ==
    Segmented =>
        /\ DOMAIN polarity = Samples
        /\ \A t \in Samples :
              /\ polarity[t] \in {1, 0, -1}
              /\ polarity[t] = 1 <=> AssignedActivation(t) > 0
              /\ polarity[t] = -1 <=> AssignedActivation(t) < 0
              /\ polarity[t] = 0 <=> AssignedActivation(t) = 0

C5_Witness ==
    /\ Segmented
    /\ \E t, u \in Samples :
          /\ AssignedActivation(t) = 0 /\ polarity[t] = 0
          /\ AssignedActivation(u) < 0 /\ polarity[u] = -1

\* C7: the segmentation has one entry per sample of the full signal, each the
\* lowest pattern index in [0, k) whose absolute activation is the largest.
C7_FirstMaxAbsAssignment ==
    Segmented =>
        LET activation == dot(microstates, data)
        IN  /\ DOMAIN segmentation = Samples
            /\ \A t \in Samples :
                  /\ segmentation[t] \in States
                  /\ \A k \in States :
                        /\ np_abs(activation[k][t]) <= np_abs(activation[segmentation[t]][t])
                        /\ k < segmentation[t] =>
                               np_abs(activation[k][t]) < np_abs(activation[segmentation[t]][t])

C7_Witness ==
    /\ Segmented
    /\ indices # Samples
    /\ LET activation == dot(microstates, data)
       IN  \E t, u \in Samples :
              /\ \E k \in States :
                    /\ k > segmentation[t]
                    /\ np_abs(activation[k][t]) = np_abs(activation[segmentation[t]][t])
                    /\ activation[k][t] # 0
              /\ segmentation[u] > 0
              /\ activation[segmentation[u]][u] < 0

\* C9: in the returned result, entry j of the per-pattern GEV is the GEV of the
\* pattern at row j of the returned patterns, scored on the samples labelled j in
\* the returned sequence.
C9_GevPerMicrostateFollowsReordering ==
    result.returned =>
        \A j \in States :
            result.GEV_per_microstate[j] =
                cluster_quality_gev(data, result.Microstates, result.Sequence).gev_all[j]

====
